---- MODULE Spec2Model ----
(***************************************************************************)
(* Model of sea_norm.sean (src/sea_norm/sea_norm.py): the normalized       *)
(* superposed epoch analysis.  One call of sean is one behaviour: Init is  *)
(* the call's arguments, and the actions are the successive blocks of the  *)
(* function body (argument handling, the event loop, pooling, the bin      *)
(* grid, the statistics loop, the return).                                 *)
(*                                                                         *)
(* Conventions.                                                            *)
(*  - Timestamps are integers (seconds).  The DataFrame index is a set of  *)
(*    timestamps, kept in increasing order.                                *)
(*  - A float is an exact rational <<num, den>> with den > 0 in lowest     *)
(*    terms; NaN (the result of 0/0) is <<0, 0>>.  All data values are     *)
(*    small integers, for which float64 arithmetic is exact.               *)
(*  - A Python str is a sequence of one-character strings, so that         *)
(*    iterating over it, list(s) and s1 + s2 are what they are in Python.  *)
(*  - Python's False for an optional argument is the empty sequence (both  *)
(*    are falsy).                                                          *)
(***************************************************************************)
EXTENDS Integers, Sequences, FiniteSets, TLC

VARIABLES
    data,          \* argument: [kind, index]
    events,        \* argument: <<starts, epochs, ends>>
    x_dimensions,  \* argument: <<x1, x2>>
    seastats,      \* argument: sequence of [name, fun] (dict, insertion order)
    y_dimensions,  \* argument: <<>> (False) or <<ymin, ymax, yspacing>>
    cols_arg,      \* argument cols as the caller passed it: [kind, val]
    y_col_arg,     \* argument y_col as passed: <<>> (False) or a column name
    cols,          \* the name cols inside the body (rebound at 148, 169)
    y_col,         \* the name y_col inside the body (rebound at 170)
    se_cols,       \* columns of se_data
    stat_vals,     \* resolved statistics
    event,         \* loop variable of the event loop (1-based)
    phase1_dfs,    \* list of normalized phase-1 frames
    phase2_dfs,    \* list of normalized phase-2 frames
    p1data,        \* pooled phase-1 frame
    p2data,        \* pooled phase-2 frame
    grid,          \* [x1_edges, x2_edges, y_edges, sea2d]
    stat,          \* loop variable of the statistics loop (1-based)
    SEAdat,        \* returned table: [index, columns]
    meta,          \* returned metadata
    pc,            \* position in the function body
    err            \* the exception raised, "" if none

vars == <<data, events, x_dimensions, seastats, y_dimensions, cols_arg,
          y_col_arg, cols, y_col, se_cols, stat_vals, event, phase1_dfs, phase2_dfs, p1data, p2data,
          grid, stat, SEAdat, meta, pc, err>>

args == <<data, events, x_dimensions, seastats, y_dimensions, cols_arg,
          y_col_arg>>

-----------------------------------------------------------------------------
(* Bounds of the model *)

MaxT == 3        \* timestamps are 0..MaxT
MaxEvents == 2   \* at most MaxEvents events in a call
MaxX == 3        \* x_dimensions entries are 2..MaxX

Times == 0..MaxT

-----------------------------------------------------------------------------
(* Python strings *)

sA == <<"a">>
sAM == <<"a", "_", "m">>
sY == <<"y">>
sM == <<"m">>
sMM == <<"m", "_", "m">>
sData == <<"d", "a", "t", "a">>
sTnorm == <<"t", "_", "n", "o", "r", "m">>
sMean == <<"m", "e", "a", "n">>
sMedian == <<"m", "e", "d", "i", "a", "n">>
sLowq == <<"l", "o", "w", "q">>
sUpq == <<"u", "p", "q">>
sCnt == <<"c", "n", "t">>
sUnderscore == <<"_">>

Digit(d) == <<"0", "1", "2", "3", "4", "5", "6", "7", "8", "9">>[d + 1]

\* list(s) for a str s: the list of its one-character strings
ListOfStr(s) == [i \in 1..Len(s) |-> <<s[i]>>]

\* a variant of Format03d: two digits, f"{j:02d}"
Format02d(j) == <<Digit((j \div 10) % 10), Digit(j % 10)>>

\* f"{j:03d}" for 0 <= j <= 999
Format03d(j) == <<Digit(j \div 100), Digit((j \div 10) % 10), Digit(j % 10)>>

-----------------------------------------------------------------------------
(* Floats as exact rationals *)

RECURSIVE GCD(_, _)
GCD(a, b) == IF b = 0 THEN a ELSE GCD(b, a % b)

Abs(n) == IF n < 0 THEN -n ELSE n

NaN == <<0, 0>>
IsNaN(r) == r[2] = 0

\* n / d as a float: 0/0 is NaN (numpy warns and carries on)
Frac(n, d) ==
    IF d = 0 THEN NaN
    ELSE LET s == IF d < 0 THEN -1 ELSE 1
             g == GCD(Abs(n), Abs(d))
         IN  <<(s * n) \div g, (s * d) \div g>>

Num(n) == <<n, 1>>
RSub(a, b) == Frac(a[1] * b[2] - b[1] * a[2], a[2] * b[2])
RDiv(a, b) == Frac(a[1] * b[2], a[2] * b[1])
RLe(a, b) == ~IsNaN(a) /\ ~IsNaN(b) /\ a[1] * b[2] <= b[1] * a[2]
RLt(a, b) == ~IsNaN(a) /\ ~IsNaN(b) /\ a[1] * b[2] < b[1] * a[2]

-----------------------------------------------------------------------------
(* Sequence helpers *)

Range(s) == {s[i] : i \in 1..Len(s)}

\* a variant of Flatten: the last frame only, not the concatenation
LastFrameOnly(ss) == IF ss = <<>> THEN <<>> ELSE ss[Len(ss)]

RECURSIVE Flatten(_)
Flatten(ss) == IF ss = <<>> THEN <<>> ELSE Head(ss) \o Flatten(Tail(ss))

RECURSIVE Sum(_)
Sum(s) == IF s = <<>> THEN 0 ELSE Head(s) + Sum(Tail(s))

\* the sequences over S of length at most n
SeqUpTo(S, n) == UNION {[1..k -> S] : k \in 0..n}

-----------------------------------------------------------------------------
(* The arguments of a call *)

\* the columns of a DataFrame argument
DataColumns == <<sA, sAM, sY>>

\* the value of column c at timestamp t, the same in every dataset
DataValue(c, t) ==
    CASE c = sA -> (t * t) % 3
      [] c = sAM -> 2 - (t % 2)
      [] c = sY -> (2 * t) % 5
      [] c = sData -> t % 3

\* the index holds every timestamp, or every one but 1
Indexes == {Times, Times \ {1}}

Datasets == [kind : {"frame", "series"}, index : Indexes]

\* an event is (t0, t1, t2) with t0 <= t1 <= t2 (the caller's contract);
\* the epochs are at 1 or 2
EventTriples ==
    {e \in Times \X {1, 2} \X Times : e[1] <= e[2] /\ e[2] <= e[3]}

\* events = [starts, epochs, ends] from a list of (t0, t1, t2)
EventArrays(es) ==
    << [i \in 1..Len(es) |-> es[i][1]],
       [i \in 1..Len(es) |-> es[i][2]],
       [i \in 1..Len(es) |-> es[i][3]] >>

EventLists == {EventArrays(es) : es \in SeqUpTo(EventTriples, MaxEvents)}

\* the statistic functions: np.nanmean, np.nanmedian, the two percentile
\* lambdas, and scipy's "count"
ColsNone == [kind |-> "none", val |-> <<>>]
ColsList(l) == [kind |-> "list", val |-> l]
ColsStr(s) == [kind |-> "str", val |-> s]

StatDicts ==
    { <<>>,
      << [name |-> sM, fun |-> "nanmean"] >>,
      << [name |-> sM, fun |-> "count"], [name |-> sMM, fun |-> "nanmean"] >> }

XDimensions == (2..MaxX) \X (2..MaxX)

YDimensions == { <<>>, <<0, 2, 1>>, <<0, 3, 2>> }

-----------------------------------------------------------------------------
(* Initial states: the arguments of one call, the locals unset *)

Unset ==
    /\ cols = cols_arg
    /\ y_col = y_col_arg
    /\ se_cols = <<>>
    /\ stat_vals = <<>>
    /\ event = 1
    /\ phase1_dfs = <<>>
    /\ phase2_dfs = <<>>
    /\ p1data = <<>>
    /\ p2data = <<>>
    /\ grid = [x1_edges |-> <<>>, x2_edges |-> <<>>, y_edges |-> <<>>,
               sea2d |-> FALSE]
    /\ stat = 1
    /\ SEAdat = [index |-> <<>>, columns |-> <<>>]
    /\ meta = [sea_cols |-> <<>>, stats |-> <<>>, y_meta |-> <<>>]
    /\ pc = "setup"
    /\ err = ""

\* calls that vary the event list, over a table with a column list and the
\* default statistics
InitEvents ==
    /\ data \in {d \in Datasets : d.kind = "frame"}
    /\ events \in EventLists
    /\ x_dimensions = <<2, MaxX>>
    /\ cols_arg = ColsList(<<sA>>)
    /\ seastats = <<>>
    /\ y_col_arg = <<>>
    /\ y_dimensions = <<>>

\* calls that vary the other arguments, over lists of one repeated event
InitArguments ==
    /\ data \in Datasets
    /\ events \in {EventArrays(es) : es \in SeqUpTo({<<0, 1, MaxT>>}, MaxEvents)}
    /\ x_dimensions \in XDimensions
    /\ cols_arg \in {ColsNone, ColsList(<<sA>>), ColsList(<<sA, sAM>>),
                     ColsStr(sA), ColsStr(sAM)}
    /\ seastats \in StatDicts
    /\ y_col_arg \in {<<>>, sY}
    /\ y_dimensions \in YDimensions

Init == (InitEvents \/ InitArguments) /\ Unset

-----------------------------------------------------------------------------
(* Lines 135-188: the arguments *)

Truthy(v) == v # <<>>

\* list(cols), line 153
ListOfCols(c) == IF c.kind = "str" THEN ListOfStr(c.val) ELSE c.val

\* what "for x in cols" and cols[i] range over, lines 273, 298-301, 316-320
IterCols(c) == ListOfCols(c)

DefaultStats ==
    << [name |-> sMean, fun |-> "nanmean"],
       [name |-> sMedian, fun |-> "nanmedian"],
       [name |-> sLowq, fun |-> "lowq"],
       [name |-> sUpq, fun |-> "upq"],
       [name |-> sCnt, fun |-> "count"] >>

\* lines 154-155: the columns kept when cols is given
ColDat(c, yc, yd) ==
    ListOfCols(c) \o (IF Truthy(yc) /\ Truthy(yd) THEN <<yc>> ELSE <<>>)

\* lines 176-188
ResolveStats(ss) == IF Truthy(ss) THEN ss ELSE DefaultStats

Raise(e) ==
    /\ pc' = "raised"
    /\ err' = e

Setup ==
    /\ pc = "setup"
    /\ stat_vals' = ResolveStats(seastats)
    /\ IF data.kind = "series"
       THEN /\ se_cols' = <<sData>>
            /\ cols' = ColsStr(sData)
            /\ y_col' = y_col
            /\ pc' = "loop"
            /\ err' = err
       ELSE IF Truthy(cols.val)
       THEN IF Range(ColDat(cols, y_col, y_dimensions)) \subseteq Range(DataColumns)
            THEN /\ se_cols' = ColDat(cols, y_col, y_dimensions)
                 /\ pc' = "loop"
                 /\ UNCHANGED <<cols, y_col, err>>
            ELSE /\ Raise("KeyError")
                 /\ UNCHANGED <<cols, y_col, se_cols>>
       ELSE /\ se_cols' = DataColumns
            /\ cols' = ColsList(DataColumns)
            /\ y_col' = <<>>
            /\ pc' = "loop"
            /\ err' = err
    /\ UNCHANGED <<args, event, phase1_dfs, phase2_dfs, p1data, p2data, grid,
                   stat, SEAdat, meta>>

-----------------------------------------------------------------------------
(* Lines 198-231: the event loop *)

\* se_data.loc[lo:hi]: the index labels in [lo, hi], both ends included
RECURSIVE Loc(_, _, _)
Loc(index, lo, hi) ==
    IF lo > hi THEN <<>>
    ELSE (IF lo \in index THEN <<lo>> ELSE <<>>) \o Loc(index, lo + 1, hi)

\* a variant of Normalize: the timestamps divided by the last one, the
\* window's first timestamp not subtracted
NormalizeFromZero(phase) ==
    [i \in 1..Len(phase) |->
        [t |-> phase[i], t_norm |-> Frac(phase[i], phase[Len(phase)])]]

\* lines 224-230: the rows of a window with their normalized time
Normalize(phase) ==
    LET elapsed == [i \in 1..Len(phase) |-> phase[i] - phase[1]]
        p_min == elapsed[1]
        p_max == elapsed[Len(phase)]
    IN  [i \in 1..Len(phase) |->
            [t |-> phase[i],
             t_norm |-> Frac(elapsed[i] - p_min, p_max - p_min)]]

Phase1(index, evs, i) == Loc(index, evs[1][i], evs[2][i])
Phase2(index, evs, i) == Loc(index, evs[2][i], evs[3][i])

\* lines 211-219
SkipEvent(index, evs, i) ==
    Phase1(index, evs, i) = <<>> \/ Phase2(index, evs, i) = <<>>

NumEvents == Len(events[1])

LoopSkip ==
    /\ pc = "loop"
    /\ event <= NumEvents
    /\ SkipEvent(data.index, events, event)
    /\ event' = event + 1
    /\ UNCHANGED <<args, cols, y_col, se_cols, stat_vals, phase1_dfs,
                   phase2_dfs, p1data, p2data, grid, stat, SEAdat, meta, pc,
                   err>>

LoopNormalize ==
    /\ pc = "loop"
    /\ event <= NumEvents
    /\ ~SkipEvent(data.index, events, event)
    /\ phase1_dfs' =
           Append(phase1_dfs, Normalize(Phase1(data.index, events, event)))
    /\ phase2_dfs' =
           Append(phase2_dfs, Normalize(Phase2(data.index, events, event)))
    /\ event' = event + 1
    /\ UNCHANGED <<args, cols, y_col, se_cols, stat_vals, p1data, p2data,
                   grid, stat, SEAdat, meta, pc, err>>

\* lines 234-235: pd.concat raises ValueError on an empty list
Concat ==
    /\ pc = "loop"
    /\ event > NumEvents
    /\ IF phase1_dfs = <<>>
       THEN /\ Raise("ValueError")
            /\ UNCHANGED <<p1data, p2data>>
       ELSE /\ p1data' = Flatten(phase1_dfs)
            /\ p2data' = Flatten(phase2_dfs)
            /\ pc' = "grid"
            /\ err' = err
    /\ UNCHANGED <<args, cols, y_col, se_cols, stat_vals, event, phase1_dfs,
                   phase2_dfs, grid, stat, SEAdat, meta>>

-----------------------------------------------------------------------------
(* Lines 140-143, 242-267: the bin grid and the normalized time axis *)

\* a variant of Linspace: n bins, so n + 1 edges
LinspaceBins(n) == [k \in 1..(n + 1) |-> Frac(k - 1, n)]

\* np.linspace(0, 1, n)
Linspace(n) ==
    IF n = 1 THEN <<Num(0)>> ELSE [k \in 1..n |-> Frac(k - 1, n - 1)]

\* np.arange(start, stop, step) on integers, step > 0
RECURSIVE Arange(_, _, _)
Arange(start, stop, step) ==
    IF start >= stop THEN <<>>
    ELSE <<start>> \o Arange(start + step, stop, step)

\* edges[0:-1]
AllButLast(s) == SubSeq(s, 1, Len(s) - 1)

RMax(s) == CHOOSE m \in Range(s) : \A r \in Range(s) : RLe(r, m)

\* line 140
Spacing(n) == Frac(1, n)

\* a variant of Phase1Axis: the spacing not subtracted
Phase1AxisFromMax(x1) ==
    [k \in 1..(x1 - 1) |->
        RDiv(RSub(Frac(k - 1, x1 - 1), Frac(x1 - 2, x1 - 1)), Frac(1, x1))]

\* line 262: (x1bins - x1bins.max() - x1_spacing) / x1_spacing
Phase1Axis(x1) ==
    LET x1bins == AllButLast(Linspace(x1))
    IN  [k \in 1..Len(x1bins) |->
            RDiv(RSub(RSub(x1bins[k], RMax(x1bins)), Spacing(x1)),
                 Spacing(x1))]

\* line 263: x2bins / x2_spacing
Phase2Axis(x2) ==
    LET x2bins == AllButLast(Linspace(x2))
    IN  [k \in 1..Len(x2bins) |-> RDiv(x2bins[k], Spacing(x2))]

TimeAxis(xd) == Phase1Axis(xd[1]) \o Phase2Axis(xd[2])

\* a variant of Sea2d: y_col not looked at
Sea2dFromDimensions(yc, yd) == Truthy(yd)

\* lines 254-259
Sea2d(yc, yd) == Truthy(yc) /\ Truthy(yd)

YEdges(yd) == Arange(yd[1], yd[2] + yd[3], yd[3])

Grid ==
    /\ pc = "grid"
    /\ grid' = [x1_edges |-> Linspace(x_dimensions[1]),
                x2_edges |-> Linspace(x_dimensions[2]),
                y_edges |-> IF Sea2d(y_col, y_dimensions)
                            THEN YEdges(y_dimensions) ELSE <<>>,
                sea2d |-> Sea2d(y_col, y_dimensions)]
    /\ SEAdat' = [index |-> <<>>,
                  columns |-> << [name |-> sTnorm,
                                  vals |-> TimeAxis(x_dimensions)] >>]
    /\ pc' = "lists"
    /\ UNCHANGED <<args, cols, y_col, se_cols, stat_vals, event, phase1_dfs,
                   phase2_dfs, p1data, p2data, stat, meta, err>>

\* lines 273-274: p1data[x] for x in cols raises KeyError on a missing column
FrameColumns == Range(se_cols) \cup {sTnorm}

Lists ==
    /\ pc = "lists"
    /\ IF Range(IterCols(cols)) \subseteq FrameColumns
       THEN pc' = "stats" /\ err' = err
       ELSE Raise("KeyError")
    /\ UNCHANGED <<args, cols, y_col, se_cols, stat_vals, event, phase1_dfs,
                   phase2_dfs, p1data, p2data, grid, stat, SEAdat, meta>>

-----------------------------------------------------------------------------
(* Lines 279-322: the statistics loop *)

\* np.digitize(x, edges): the number of edges <= x; NaN sorts last
Digitize(x, edges) ==
    IF IsNaN(x) THEN Len(edges)
    ELSE Cardinality({i \in 1..Len(edges) : RLe(edges[i], x)})

\* a variant of BinNumber: the last bin half-open like the others
BinNumberHalfOpen(x, edges) ==
    IF IsNaN(x) THEN Len(edges)
    ELSE Cardinality({i \in 1..Len(edges) : RLe(edges[i], x)})

\* scipy's bin number: bins are [e_k, e_k+1), the last one [e_n-1, e_n];
\* a number outside 1..Len(edges)-1 is an outlier and is dropped
BinNumber(x, edges) ==
    IF x = edges[Len(edges)] THEN Len(edges) - 1 ELSE Digitize(x, edges)

Less(a, b) == a < b

\* np.nanpercentile(v, q), linear interpolation, on integers
Percentile(v, q) ==
    IF v = <<>> THEN NaN
    ELSE LET s == SortSeq(v, Less)
             pos == (Len(s) - 1) * q
             lo == pos \div 100
             r == pos % 100
         IN  IF r = 0 THEN Num(s[lo + 1])
             ELSE Frac(100 * s[lo + 1] + r * (s[lo + 2] - s[lo + 1]), 100)

\* np.nanmedian on integers
Median(v) ==
    IF v = <<>> THEN NaN
    ELSE LET s == SortSeq(v, Less)
             n == Len(s)
         IN  IF n % 2 = 1 THEN Num(s[(n + 1) \div 2])
             ELSE Frac(s[n \div 2] + s[(n \div 2) + 1], 2)

\* one reducer applied to the values of one bin
Statistic(fun, v) ==
    CASE fun = "count" -> Num(Len(v))
      [] fun = "nanmean" -> Frac(Sum(v), Len(v))
      [] fun = "nanmedian" -> Median(v)
      [] fun = "lowq" -> Percentile(v, 25)
      [] fun = "upq" -> Percentile(v, 75)

IntValues(frame, c) == [i \in 1..Len(frame) |-> DataValue(c, frame[i].t)]

\* the rows of a frame that fall in time bin k
RowsInBin(frame, edges, k) ==
    SelectSeq(frame, LAMBDA row : BinNumber(row.t_norm, edges) = k)

\* the rows of a frame that fall in time bin k and y bin j
RowsInCell(frame, yc, xedges, yedges, k, j) ==
    SelectSeq(frame,
              LAMBDA row :
                  /\ BinNumber(row.t_norm, xedges) = k
                  /\ BinNumber(Num(DataValue(yc, row.t)),
                               [i \in 1..Len(yedges) |-> Num(yedges[i])]) = j)

\* stats.binned_statistic for one column: one value per time bin
BinnedStatistic(frame, c, edges, fun) ==
    [k \in 1..(Len(edges) - 1) |->
        Statistic(fun, IntValues(RowsInBin(frame, edges, k), c))]

\* stats.binned_statistic_2d for one column and one y bin
BinnedStatistic2d(frame, c, yc, xedges, yedges, fun, j) ==
    [k \in 1..(Len(xedges) - 1) |->
        Statistic(fun, IntValues(RowsInCell(frame, yc, xedges, yedges, k, j), c))]

\* df[name] = vals: replaces the column if it exists, appends it otherwise
SetColumn(df, name, v) ==
    IF \E i \in 1..Len(df.columns) : df.columns[i].name = name
    THEN [df EXCEPT !.columns =
             [i \in 1..Len(df.columns) |->
                 IF df.columns[i].name = name
                 THEN [name |-> name, vals |-> v] ELSE df.columns[i]]]
    ELSE [df EXCEPT !.columns = Append(@, [name |-> name, vals |-> v])]

RECURSIVE SetColumns(_, _)
SetColumns(df, entries) ==
    IF entries = <<>> THEN df
    ELSE SetColumns(SetColumn(df, Head(entries).name, Head(entries).vals),
                    Tail(entries))

\* lines 316-322: the columns one statistic adds in 1D mode
Columns1d(p1, p2, cs, g, sv) ==
    [i \in 1..Len(cs) |->
        [name |-> cs[i] \o sUnderscore \o sv.name,
         vals |-> BinnedStatistic(p1, cs[i], g.x1_edges, sv.fun)
                  \o BinnedStatistic(p2, cs[i], g.x2_edges, sv.fun)]]

\* lines 298-303: the columns one statistic adds in 2D mode, column-major
Columns2d(p1, p2, cs, yc, g, sv) ==
    LET ny == Len(g.y_edges) - 1
    IN  [n \in 1..(Len(cs) * ny) |->
            LET i == ((n - 1) \div ny) + 1
                j == ((n - 1) % ny) + 1
            IN  [name |-> cs[i] \o sUnderscore \o sv.name \o sUnderscore
                          \o Format03d(j - 1),
                 vals |-> BinnedStatistic2d(p1, cs[i], yc, g.x1_edges,
                                            g.y_edges, sv.fun, j)
                          \o BinnedStatistic2d(p2, cs[i], yc, g.x2_edges,
                                               g.y_edges, sv.fun, j)]]

Stat1d ==
    /\ pc = "stats"
    /\ stat <= Len(stat_vals)
    /\ ~grid.sea2d
    /\ SEAdat' = SetColumns(SEAdat, Columns1d(p1data, p2data, IterCols(cols),
                                              grid, stat_vals[stat]))
    /\ stat' = stat + 1
    /\ UNCHANGED <<args, cols, y_col, se_cols, stat_vals, event, phase1_dfs,
                   phase2_dfs, p1data, p2data, grid, meta, pc, err>>

Stat2d ==
    /\ pc = "stats"
    /\ stat <= Len(stat_vals)
    /\ grid.sea2d
    /\ IF y_col \in FrameColumns
       THEN /\ SEAdat' = SetColumns(SEAdat,
                                    Columns2d(p1data, p2data, IterCols(cols),
                                              y_col, grid, stat_vals[stat]))
            /\ stat' = stat + 1
            /\ UNCHANGED <<pc, err>>
       ELSE /\ Raise("KeyError")   \* p1data[y_col], line 284
            /\ UNCHANGED <<SEAdat, stat>>
    /\ UNCHANGED <<args, cols, y_col, se_cols, stat_vals, event, phase1_dfs,
                   phase2_dfs, p1data, p2data, grid, meta>>

-----------------------------------------------------------------------------
(* Lines 325-340: the return value *)

\* SEAdat.set_index("t_norm")
SetIndex(df, name) ==
    LET i == CHOOSE i \in 1..Len(df.columns) : df.columns[i].name = name
    IN  [index |-> df.columns[i].vals,
         columns |-> SubSeq(df.columns, 1, i - 1)
                     \o SubSeq(df.columns, i + 1, Len(df.columns))]

\* lines 327-328
SeaCols(c) == IF c.kind = "str" THEN <<c.val>> ELSE c.val

\* lines 331-335: y_meta is <<>> for False
YMeta(g, yd) ==
    IF g.sea2d
    THEN << [min |-> yd[1], max |-> yd[2], bin |-> yd[3], edges |-> g.y_edges] >>
    ELSE <<>>

Return ==
    /\ pc = "stats"
    /\ stat > Len(stat_vals)
    /\ SEAdat' = SetIndex(SEAdat, sTnorm)
    /\ meta' = [sea_cols |-> SeaCols(cols), stats |-> stat_vals,
                y_meta |-> YMeta(grid, y_dimensions)]
    /\ pc' = "done"
    /\ UNCHANGED <<args, cols, y_col, se_cols, stat_vals, event, phase1_dfs,
                   phase2_dfs, p1data, p2data, grid, stat, err>>

Next ==
    \/ Setup
    \/ LoopSkip
    \/ LoopNormalize
    \/ Concat
    \/ Grid
    \/ Lists
    \/ Stat1d
    \/ Stat2d
    \/ Return

Spec == Init /\ [][Next]_vars

-----------------------------------------------------------------------------
(* The whole call as a function of the event list (lines 198-325), for     *)
(* comparing calls that differ in their events only                        *)

\* lines 198-231: the frames the loop appends for phase ph, from event i on
RECURSIVE Pooled(_, _, _, _)
Pooled(index, evs, i, ph) ==
    IF i > Len(evs[1]) THEN <<>>
    ELSE (IF SkipEvent(index, evs, i) THEN <<>>
          ELSE IF ph = 1 THEN <<Normalize(Phase1(index, evs, i))>>
          ELSE <<Normalize(Phase2(index, evs, i))>>)
         \o Pooled(index, evs, i + 1, ph)

\* lines 279-322: the statistics loop over the statistics svs
RECURSIVE AllStats(_, _, _, _, _, _, _)
AllStats(df, p1, p2, cs, yc, g, svs) ==
    IF svs = <<>> THEN df
    ELSE AllStats(SetColumns(df, IF g.sea2d
                                 THEN Columns2d(p1, p2, cs, yc, g, Head(svs))
                                 ELSE Columns1d(p1, p2, cs, g, Head(svs))),
                  p1, p2, cs, yc, g, Tail(svs))

\* lines 234-325: the table returned for the events evs
Table(index, evs) ==
    SetIndex(AllStats([index |-> <<>>,
                       columns |-> << [name |-> sTnorm,
                                       vals |-> TimeAxis(x_dimensions)] >>],
                      Flatten(Pooled(index, evs, 1, 1)),
                      Flatten(Pooled(index, evs, 1, 2)),
                      IterCols(cols), y_col, grid, stat_vals),
             sTnorm)

-----------------------------------------------------------------------------
(* Vocabulary of the properties *)

Returned == pc = "done"

\* the data rows of an event's two windows, as sets of timestamps
Window1(i) == {t \in data.index : events[1][i] <= t /\ t <= events[2][i]}
Window2(i) == {t \in data.index : events[2][i] <= t /\ t <= events[3][i]}

EmptyWindow(i) == Window1(i) = {} \/ Window2(i) = {}

\* the events the loop has gone through, and those among them with data
Processed == 1..(event - 1)
NonEmpty == {i \in Processed : ~EmptyWindow(i)}

RECURSIVE SumOver(_, _)
SumOver(S, f) ==
    IF S = {} THEN 0
    ELSE LET x == CHOOSE x \in S : TRUE IN f[x] + SumOver(S \ {x}, f)

ColumnNames(df) == [i \in 1..Len(df.columns) |-> df.columns[i].name]

StatNames == [i \in 1..Len(stat_vals) |-> stat_vals[i].name]

BothSupplied == Truthy(y_col_arg) /\ Truthy(y_dimensions)

\* the names of the 1D and of the 2D result columns
Names1d ==
    {c \o sUnderscore \o n : c \in Range(IterCols(cols)), n \in Range(StatNames)}

Names2d ==
    {c \o sUnderscore \o n \o sUnderscore \o Format03d(j) :
        c \in Range(IterCols(cols)), n \in Range(StatNames),
        j \in 0..(Len(grid.y_edges) - 2)}

-----------------------------------------------------------------------------
(* C1.  An event with an empty phase-1 or phase-2 window is skipped as a   *)
(* whole: it adds no sample to either pooled set, and the call does not    *)
(* raise because of it -- the other events are processed and a result is   *)
(* returned.  The code raises ValueError in pd.concat when every event was *)
(* skipped.                                                                *)

C1_EmptyWindowEventSkippedWithoutRaising ==
    /\ Len(phase1_dfs) = Cardinality(NonEmpty)
    /\ Len(phase2_dfs) = Cardinality(NonEmpty)
    /\ Len(Flatten(phase1_dfs)) =
           SumOver(NonEmpty, [i \in NonEmpty |-> Cardinality(Window1(i))])
    /\ Len(Flatten(phase2_dfs)) =
           SumOver(NonEmpty, [i \in NonEmpty |-> Cardinality(Window2(i))])
    /\ (\E i \in Processed : EmptyWindow(i))
           => ~(pc = "raised" /\ err = "ValueError")

-----------------------------------------------------------------------------
(* C2 as stated.  Whenever sean returns, the result is 2D (y_meta is the   *)
(* record, the columns carry the _000, _001, ... suffixes) exactly when    *)
(* the caller supplied both y_col and y_dimensions.                        *)

TwoDRequested == Truthy(cols_arg.val) /\ BothSupplied

-----------------------------------------------------------------------------
(* C3.  When data is a single series, sean treats it as a one-column       *)
(* dataset and returns a table with one column per statistic for that      *)
(* column, meta['sea_cols'] naming it.  The code iterates over the str     *)
(* "data" at line 273 and raises KeyError.                                 *)

C3_SeriesIsOneColumnDataset ==
    data.kind = "series" =>
        /\ ~(pc = "raised" /\ err = "KeyError")
        /\ Returned =>
               /\ meta.sea_cols = <<sData>>
               /\ ColumnNames(SEAdat) =
                      [i \in 1..Len(stat_vals) |->
                          sData \o sUnderscore \o stat_vals[i].name]

-----------------------------------------------------------------------------
(* C4.  For x_dimensions = [x1, x2] with x1, x2 >= 2, a returned table has *)
(* exactly (x1 - 1) + (x2 - 1) rows, every column has that length, and the *)
(* first x1 - 1 rows are phase 1, the last x2 - 1 phase 2: with the        *)
(* default statistics in 1D mode the counts of the first x1 - 1 rows add   *)
(* up to the phase-1 samples with a finite t_norm, those of the last       *)
(* x2 - 1 rows to the phase-2 ones.                                        *)

Finite(frame) == {i \in 1..Len(frame) : ~IsNaN(frame[i].t_norm)}

ColumnNamed(df, name) ==
    df.columns[CHOOSE i \in 1..Len(df.columns) : df.columns[i].name = name]

Numerators(v) == [i \in 1..Len(v) |-> v[i][1]]

-----------------------------------------------------------------------------
(* C5.  With the default statistics (1D mode), for each phase and each     *)
(* time bin k the 'cnt' value equals the number of pooled samples of the   *)
(* phase whose t_norm lies in [edge_k, edge_k+1), or in [edge_k, edge_k+1] *)
(* for the last bin of the phase; the pooled set holds every row of every  *)
(* non-skipped event's window, the epoch row in both phases.               *)

\* t_norm in bin k of n - 1 bins over [0, 1], stated on the fractions
InBin(x, k, n) ==
    /\ ~IsNaN(x)
    /\ (k - 1) * x[2] <= x[1] * (n - 1)
    /\ IF k = n - 1 THEN x[1] * (n - 1) <= k * x[2]
       ELSE x[1] * (n - 1) < k * x[2]

\* the pooled frame holds timestamp t once per non-skipped event whose
\* window holds it
PooledExactly(frame, W(_)) ==
    \A t \in Times :
        Cardinality({i \in 1..Len(frame) : frame[i].t = t}) =
            Cardinality({i \in NonEmpty : t \in W(i)})

C5_CountIsSamplesInBin ==
    (Returned /\ seastats = <<>> /\ ~grid.sea2d) =>
        LET n1 == x_dimensions[1]
            n2 == x_dimensions[2]
        IN  /\ PooledExactly(p1data, Window1)
            /\ PooledExactly(p2data, Window2)
            /\ \A i \in NonEmpty :
                   events[2][i] \in data.index =>
                       events[2][i] \in Window1(i) \cap Window2(i)
            /\ \A c \in Range(IterCols(cols)) :
                   LET cnt == ColumnNamed(SEAdat, c \o sUnderscore \o sCnt).vals
                   IN  /\ \A k \in 1..(n1 - 1) :
                              cnt[k] = Num(Cardinality(
                                  {i \in 1..Len(p1data) :
                                      InBin(p1data[i].t_norm, k, n1)}))
                       /\ \A k \in 1..(n2 - 1) :
                              cnt[n1 - 1 + k] = Num(Cardinality(
                                  {i \in 1..Len(p2data) :
                                      InBin(p2data[i].t_norm, k, n2)}))

\* two events pooled, a sample on the edge shared by two bins and one on
\* the closing edge of the last bin
C5_Witness ==
    /\ Returned /\ seastats = <<>> /\ ~grid.sea2d
    /\ x_dimensions = <<2, 3>>
    /\ Len(phase2_dfs) = 2
    /\ \E i \in 1..Len(p2data) : p2data[i].t_norm = <<1, 2>>
    /\ \E i \in 1..Len(p2data) : p2data[i].t_norm = Num(1)
    /\ ColumnNamed(SEAdat, sA \o sUnderscore \o sCnt).vals[3] = Num(3)

-----------------------------------------------------------------------------
(* C6 as stated.  The result has one column per (column, statistic) pair   *)
(* in 1D mode and per (column, statistic, y-bin) triple in 2D mode, named  *)
(* <column>_<statistic>[_<ybin:03d>], so |cols| * |stats| columns in 1D    *)
(* and |cols| * |stats| * (len(y_edges) - 1) in 2D, for any columns and    *)
(* any statistic names.                                                    *)

\* <ybin:03d> for a y-bin index below 10
Suffix3(j) == <<"0", "0", Digit(j)>>

GeneratedNames ==
    IF grid.sea2d
    THEN {c \o sUnderscore \o n \o sUnderscore \o Suffix3(j) :
             c \in Range(IterCols(cols)), n \in Range(StatNames),
             j \in 0..(Len(grid.y_edges) - 2)}
    ELSE {c \o sUnderscore \o n :
             c \in Range(IterCols(cols)), n \in Range(StatNames)}

PairCount ==
    Len(IterCols(cols)) * Len(stat_vals)
        * (IF grid.sea2d THEN Len(grid.y_edges) - 1 ELSE 1)

NoUnderscore(name) == \A i \in 1..Len(name) : name[i] # "_"

-----------------------------------------------------------------------------
(* C7.  For x1, x2 >= 2 the index of the returned table is increasing,     *)
(* every phase-1 index value is strictly negative and every phase-2 index  *)
(* value is >= 0.                                                          *)

C7_IndexMonotonicAndSigned ==
    Returned =>
        LET n1 == x_dimensions[1] - 1
            idx == SEAdat.index
        IN  /\ \A k \in 1..(Len(idx) - 1) : RLt(idx[k], idx[k + 1])
            /\ \A k \in 1..n1 : RLt(idx[k], Num(0))
            /\ \A k \in (n1 + 1)..Len(idx) : RLe(Num(0), idx[k])

C7_Witness ==
    /\ Returned
    /\ x_dimensions = <<3, 3>>
    /\ SEAdat.index = << <<-5, 2>>, <<-1, 1>>, <<0, 1>>, <<3, 2>> >>

-----------------------------------------------------------------------------
(* C8.  The combined normalized-time axis is integer-valued for every      *)
(* x1, x2 >= 2: the phase-2 rows are labelled 0, 1, 2, ..., the phase-1    *)
(* rows with negative integers, the last one next to the epoch.  The code  *)
(* divides bin starts k/(x-1) by the spacing 1/x: for x = 3 the axis is    *)
(* -5/2, -1, 0, 3/2.                                                       *)

C8_AxisIsIntegerValued ==
    Returned =>
        LET n1 == x_dimensions[1] - 1
            idx == SEAdat.index
        IN  /\ \A k \in 1..Len(idx) : idx[k][2] = 1
            /\ \A k \in (n1 + 1)..Len(idx) : idx[k] = Num(k - n1 - 1)
            /\ \A k \in 1..n1 : idx[k][1] < 0
            /\ idx[n1] = Num(-1)

-----------------------------------------------------------------------------
(* C9.  For every non-skipped event and each of its phases whose window's  *)
(* first and last timestamps differ, every sample gets a t_norm in [0, 1]  *)
(* computed from that window alone, (t - first) / (last - first): the      *)
(* first row at 0, the last at 1.                                          *)

Min(S) == CHOOSE m \in S : \A x \in S : m <= x
Max(S) == CHOOSE m \in S : \A x \in S : x <= m

\* the n-th event the loop kept
NthKept(n) ==
    CHOOSE i \in NonEmpty : Cardinality({j \in NonEmpty : j <= i}) = n

NormalizedOver(frame, W) ==
    /\ {frame[r].t : r \in 1..Len(frame)} = W
    /\ Len(frame) = Cardinality(W)
    /\ Min(W) # Max(W) =>
           /\ \A r \in 1..Len(frame) :
                  LET x == frame[r].t_norm
                  IN  /\ x[2] > 0
                      /\ 0 <= x[1] /\ x[1] <= x[2]
                      /\ x[1] * (Max(W) - Min(W)) = (frame[r].t - Min(W)) * x[2]
           /\ frame[1].t_norm = Num(0)
           /\ frame[Len(frame)].t_norm = Num(1)

InUnitInterval(x) == x[2] > 0 /\ 0 <= x[1] /\ x[1] <= x[2]

\* stated once the loop is over: the frames and the pooled sets do not
\* change afterwards
C9_TNormWithinUnitInterval ==
    pc = "grid" =>
        /\ \A n \in 1..Len(phase1_dfs) :
               NormalizedOver(phase1_dfs[n], Window1(NthKept(n)))
        /\ \A n \in 1..Len(phase2_dfs) :
               NormalizedOver(phase2_dfs[n], Window2(NthKept(n)))
        /\ \A r \in 1..Len(p1data) :
               IsNaN(p1data[r].t_norm) \/ InUnitInterval(p1data[r].t_norm)
        /\ \A r \in 1..Len(p2data) :
               IsNaN(p2data[r].t_norm) \/ InUnitInterval(p2data[r].t_norm)

\* two events kept, the second with an inner sample and a window that does
\* not start at timestamp 0
C9_Witness ==
    /\ Len(phase2_dfs) = 2
    /\ Len(phase2_dfs[2]) = 3
    /\ phase2_dfs[2][1].t = 1
    /\ phase2_dfs[2][2].t_norm = <<1, 2>>
    /\ phase1_dfs[1] # phase1_dfs[2]

-----------------------------------------------------------------------------
(* C10.  The returned table does not depend on the order of the events:    *)
(* for every permutation applied alike to t0[], t1[], t2[] the call        *)
(* returns the same index, columns and values (count, mean, median and     *)
(* quartiles), since the samples are pooled per phase before binning.      *)

Permute(evs, f) ==
    [a \in 1..3 |-> [i \in 1..Len(evs[1]) |-> evs[a][f[i]]]]

Reversed(evs) == Permute(evs, [i \in 1..Len(evs[1]) |-> Len(evs[1]) + 1 - i])

\* the events in increasing order of (t0, t1, t2)
Before(e, f) ==
    \/ e[1] < f[1]
    \/ e[1] = f[1] /\ e[2] < f[2]
    \/ e[1] = f[1] /\ e[2] = f[2] /\ e[3] < f[3]

Sorted(evs) ==
    EventArrays(SortSeq([i \in 1..Len(evs[1]) |->
                            <<evs[1][i], evs[2][i], evs[3][i]>>], Before))

=============================================================================
